---- MODULE Spec2Model ----
(***************************************************************************)
(* Model of src/util/ledger/index.ts: the Ledger device session            *)
(* (transport / tonTransport), connectLedger, waitLedgerTonApp,            *)
(* signLedgerTransactions, submitLedgerTransfer and getNextLedgerWallets.  *)
(*                                                                         *)
(* Every async function is a process whose position is a "pc" field; each  *)
(* action is the code between two suspension points (await).  Results of   *)
(* the device, the transport library and the backend API are inputs drawn  *)
(* with \E.  Indices are 0-based as in the source; sequences are 1-based,  *)
(* so the message with source index i is messages[i + 1].                  *)
(***************************************************************************)
EXTENDS Integers, Sequences, FiniteSets, TLC

VARIABLES
    transport,      \* module variable `transport`   : <<>> (undefined) or <<handle>>
    tonTransport,   \* module variable `tonTransport`: <<>> (undefined) or <<handle>>
    sign,           \* one run of signLedgerTransactions (locals + history)
    wait,           \* one run of waitLedgerTonApp / checkTonApp (locals + history)
    clock,          \* milliseconds since waitLedgerTonApp was called
    conn,           \* the runs of connectLedger / connectHID / connectUSB, by call
    wallets,        \* one run of getNextLedgerWallets
    submit,         \* one run of submitLedgerTransfer
    query           \* one run of signLedgerProof or verifyAddress

vars == <<transport, tonTransport, sign, wait, clock, conn, wallets, submit, query>>

(***************************************************************************)
(* Program constants                                                       *)
(***************************************************************************)
ATTEMPTS == 10
PAUSE == 125

\* imported from api/blockchains/ton/constants ("a configured default")
DEFAULT_IS_BOUNCEABLE == FALSE

\* StatusCodes.CONDITIONS_OF_USE_NOT_SATISFIED of @ledgerhq/errors (0x6985)
CONDITIONS_OF_USE_NOT_SATISFIED == 27013

(***************************************************************************)
(* Bounds of the model                                                     *)
(***************************************************************************)
MaxBatch == 3        \* longest `messages` array
MaxSeqno == 2        \* largest seqno argument / wallet seqno
MaxIndex == 2        \* largest ledger account index scanned
ProbeDelay == 100    \* duration (ms) of a slow device probe

Undefined == <<>>
Some(x) == <<x>>
Get(o) == o[1]

Min(S) == CHOOSE x \in S : \A y \in S : x <= y

(***************************************************************************)
(* signLedgerTransactions: inputs                                          *)
(***************************************************************************)
\* toAddress is one of "EQ-friendly" (friendly, bounceable), "UQ-friendly"
\* (friendly, non-bounceable), "raw" ("0:ab..") and "malformed" (a string
\* Address.parse rejects).
Message(addr, type, comment) ==
    [toAddress |-> addr, payload |-> [type |-> type, comment |-> comment]]

\* ApiDappTransfer values the batch is drawn from: every payload type of the
\* switch, every address form, and token/NFT transfers to addresses that do
\* not declare themselves bounceable.  "encrypted-comment" stands for a type
\* the switch does not list.
MessageKinds ==
    { Message("EQ-friendly", "undefined", ""),
      Message("UQ-friendly", "comment", "valid text"),
      Message("raw", "nft:transfer", ""),
      Message("UQ-friendly", "tokens:transfer", ""),
      Message("EQ-friendly", "comment", "invalid text"),
      Message("UQ-friendly", "unknown", ""),
      Message("raw", "encrypted-comment", ""),
      Message("malformed", "undefined", "") }

RECURSIVE SeqsUpTo(_, _)
SeqsUpTo(S, n) ==
    IF n = 0 THEN {<<>>}
    ELSE LET shorter == SeqsUpTo(S, n - 1)
         IN shorter \cup {Append(s, x) : s \in {t \in shorter : Len(t) = n - 1}, x \in S}

Batches == SeqsUpTo(MessageKinds, MaxBatch)

\* the optional `seqno` argument, and what getWalletSeqno can answer
SeqnoArgs == {Undefined} \cup {Some(n) : n \in 0..MaxSeqno}
WalletSeqnos == 0..MaxSeqno

(***************************************************************************)
(* signLedgerTransactions: the pure parts                                  *)
(***************************************************************************)
\* ./utils isValidLedgerComment: the device's charset/length check
isValidLedgerComment(comment) == comment = "valid text"

\* `!seqno`: undefined and 0 are both falsy
SeqnoIsFalsy(s) == IF s = Undefined THEN TRUE ELSE Get(s) = 0

isFriendly(addr) == addr \in {"EQ-friendly", "UQ-friendly"}
parseFriendlyIsBounceable(addr) == addr = "EQ-friendly"
AddressParses(addr) == addr # "malformed"

\* PayloadCheck with the throwing `default` branch lost: only an invalid
\* comment is refused
PayloadCheckWithoutDefault(payload) ==
    IF payload.type = "comment" /\ ~isValidLedgerComment(payload.comment)
    THEN "Unsupported format" ELSE "ok"

\* the switch over payload?.type: "ok", or the message of the Error thrown
PayloadCheck(payload) ==
    CASE payload.type = "comment" ->
            IF isValidLedgerComment(payload.comment) THEN "ok" ELSE "Unsupported format"
      [] payload.type = "undefined" -> "ok"
      [] payload.type = "nft:transfer" -> "ok"
      [] payload.type = "tokens:transfer" -> "ok"
      [] OTHER -> "Unsupported format"

\* the type of ledgerPayload the switch builds
LedgerPayloadType(payload) ==
    CASE payload.type = "comment" -> "comment"
      [] payload.type = "nft:transfer" -> "nft-transfer"
      [] payload.type = "tokens:transfer" -> "jetton-transfer"
      [] OTHER -> "undefined"

\* isBounceable as the callback leaves it
Bounce(message) ==
    IF message.payload.type \in {"nft:transfer", "tokens:transfer"} THEN TRUE
    ELSE IF isFriendly(message.toAddress) THEN parseFriendlyIsBounceable(message.toAddress)
    ELSE DEFAULT_IS_BOUNCEABLE

\* what one call of the map callback throws ("ok": it returns)
PrepareCheck(message) ==
    IF PayloadCheck(message.payload) # "ok" THEN PayloadCheck(message.payload)
    ELSE IF ~AddressParses(message.toAddress) THEN "Unknown address type"
    ELSE "ok"

\* OptionsSeqno without the `+ index`
OptionsSeqnoWithoutIndex(base, i) == base

\* seqno: seqno! + index
OptionsSeqno(base, i) == base + i

\* the object the map callback returns for messages[i] (timeout, amount and
\* stateInit do not influence the control flow and are left out)
PrepareOne(message, i, base) ==
    [ to |-> message.toAddress,
      sendMode |-> "PAY_GAS_SEPARATELY + IGNORE_ERRORS",
      seqno |-> OptionsSeqno(base, i),
      bounce |-> Bounce(message),
      payload |-> LedgerPayloadType(message.payload) ]

\* messages.map(...): Array.prototype.map calls the callback in index order
\* and the first throw ends it
PrepareError(msgs) ==
    LET bad == {i \in 1..Len(msgs) : PrepareCheck(msgs[i]) # "ok"}
    IN IF bad = {} THEN "ok" ELSE PrepareCheck(msgs[Min(bad)])

PreparedOptions(msgs, base) ==
    [i \in 1..Len(msgs) |-> PrepareOne(msgs[i], i - 1, base)]

\* Attempts without the `+ preparedOptions.length`
AttemptsWithoutLength(n) == ATTEMPTS

\* const attempts = ATTEMPTS + preparedOptions.length
Attempts(n) == ATTEMPTS + n

\* LoopGuard without the attempt budget
LoopGuardWithoutBudget(index, n, attempt, attempts) == index < n

\* while (index < preparedOptions.length && attempt < attempts)
LoopGuard(index, n, attempt, attempts) == index < n /\ attempt < attempts

\* IsUserRejection comparing with the "device locked" status instead
IsUserRejectionWrongCode(statusCode) == statusCode = 21781

\* err?.statusCode === StatusCodes.CONDITIONS_OF_USE_NOT_SATISFIED
IsUserRejection(statusCode) == statusCode = CONDITIONS_OF_USE_NOT_SATISFIED

\* the element pushed to signedMessages after a successful signature
SignedTransfer(options, message) ==
    [ base64 |-> <<"boc", options>>,
      seqno |-> options.seqno,
      params |-> [ toAddress |-> message.toAddress,
                   comment |-> IF message.payload.type = "comment"
                               THEN message.payload.comment ELSE "undefined" ] ]

\* IndexAfterFailure that moves on to the next message
IndexSkipsAfterFailure(index) == index + 1

\* index after a signing call that threw a non-rejection error
IndexAfterFailure(index) == index

\* AttemptAfterSuccess that leaves the budget to the failures
AttemptKeptAfterSuccess(attempt) == attempt

\* attempt after a signing call that resolved: `attempt++` at line 474 is
\* outside the try block
AttemptAfterSuccess(attempt) == attempt + 1

\* index after a signing call that resolved
IndexAfterSuccess(index) == index + 1

(***************************************************************************)
(* Device session                                                          *)
(***************************************************************************)
\* new TransportWebHID(device) / TransportWebUSB.open(device) ...: a handle
Transport(kind, id) == [kind |-> kind, id |-> id]

\* new TonTransport(transport)
TonTransport(t) == [transport |-> t]

SessionUndefined == transport = Undefined /\ tonTransport = Undefined

\* the session an earlier connectLedger (call 0) left after it succeeded
SessionConnected ==
    /\ transport = Some(Transport("HID", 0))
    /\ tonTransport = Some(TonTransport(Transport("HID", 0)))

(***************************************************************************)
(* signLedgerTransactions: state                                           *)
(***************************************************************************)
SignIdle ==
    [ pc |-> "idle",               \* idle, resolveSeqno, prepare, loop, signing, returned, thrown
      messages |-> <<>>,           \* argument `messages`
      seqnoArg |-> Undefined,      \* argument `seqno` as the caller passed it
      seqno |-> Undefined,         \* parameter `seqno` (reassigned at line 344)
      preparedOptions |-> <<>>,
      signedMessages |-> <<>>,
      attempts |-> 0,
      index |-> 0,
      attempt |-> 0,
      inflight |-> Undefined,      \* options of the signTransaction call awaited
      error |-> "none",            \* what the function threw
      result |-> <<>>,             \* what the function returned
      \* history
      walletSeqnoConsulted |-> FALSE,  \* getWalletSeqno was called
      signCalls |-> 0,                 \* signTransaction calls that reached the device
      transientFailures |-> 0,         \* signing attempts that threw a non-rejection error
      declined |-> FALSE,              \* a signing call threw the "user declined" code
      attempted |-> {},                \* indices whose signTransaction was invoked
      lastCall |-> Undefined,          \* last call that reached the device: seqno, status
      transportError |-> FALSE ]       \* a signing call threw an error of the transport

\* errors a signTransaction call can throw: the user declined on the device,
\* the device answered another status (0x5515: locked), or the transport
\* failed (an error without statusCode, written 0)
SignErrorCodes == {CONDITIONS_OF_USE_NOT_SATISFIED, 21781, 0}

\* an error of the transport itself: it carries no statusCode
IsTransportError(statusCode) == statusCode = 0

\* SessionAfterSignError that drops the handle when the transport failed
SessionClearedOnTransportError(handle, statusCode) ==
    IF IsTransportError(statusCode) THEN Undefined ELSE handle

\* transport / tonTransport after a signing call threw: the catch blocks
\* (lines 284-287 and 468-473) assign neither variable
SessionAfterSignError(handle, statusCode) == handle

(***************************************************************************)
(* signLedgerTransactions: actions                                         *)
(***************************************************************************)
\* the call: lines 333-341 (waitLastTransfer, getLedgerAccountPath, fetchAddress)
SignCall ==
    /\ sign.pc = "idle"
    /\ \E msgs \in Batches, arg \in SeqnoArgs :
           sign' = [sign EXCEPT !.pc = "resolveSeqno", !.messages = msgs,
                                !.seqnoArg = arg, !.seqno = arg]
    /\ UNCHANGED <<transport, tonTransport, wait, clock, conn, wallets, submit, query>>

\* lines 343-345, `!seqno` true: seqno = await callApi('getWalletSeqno')
FetchWalletSeqno(w) ==
    /\ sign.pc = "resolveSeqno"
    /\ SeqnoIsFalsy(sign.seqno)
    /\ sign' = [sign EXCEPT !.pc = "prepare", !.seqno = Some(w),
                            !.walletSeqnoConsulted = TRUE]
    /\ UNCHANGED <<transport, tonTransport, wait, clock, conn, wallets, submit, query>>

\* lines 343-345, `!seqno` false
KeepSeqno ==
    /\ sign.pc = "resolveSeqno"
    /\ ~SeqnoIsFalsy(sign.seqno)
    /\ sign' = [sign EXCEPT !.pc = "prepare"]
    /\ UNCHANGED <<transport, tonTransport, wait, clock, conn, wallets, submit, query>>

\* lines 347-447: messages.map(...) and the loop's initialisation
Prepare ==
    /\ sign.pc = "prepare"
    /\ IF PrepareError(sign.messages) # "ok"
       THEN sign' = [sign EXCEPT !.pc = "thrown", !.error = PrepareError(sign.messages)]
       ELSE sign' = [sign EXCEPT
                        !.pc = "loop",
                        !.preparedOptions = PreparedOptions(sign.messages, Get(sign.seqno)),
                        !.signedMessages = <<>>,
                        !.attempts = Attempts(Len(sign.messages)),
                        !.index = 0,
                        !.attempt = 0]
    /\ UNCHANGED <<transport, tonTransport, wait, clock, conn, wallets, submit, query>>

\* lines 449-454 on a live signer: the loop guard holds and
\* tonTransport.signTransaction(path, options) is sent to the device
SignTransaction ==
    /\ sign.pc = "loop"
    /\ LoopGuard(sign.index, Len(sign.preparedOptions), sign.attempt, sign.attempts)
    /\ tonTransport # Undefined
    /\ LET options == sign.preparedOptions[sign.index + 1]
       IN sign' = [sign EXCEPT
                      !.pc = "signing",
                      !.inflight = Some(options),
                      !.signCalls = @ + 1,
                      !.attempted = @ \cup {sign.index},
                      !.lastCall = Some([seqno |-> options.seqno, status |-> "pending"])]
    /\ UNCHANGED <<transport, tonTransport, wait, clock, conn, wallets, submit, query>>

\* lines 449-454, 468-474 with tonTransport undefined: `tonTransport!.signTransaction`
\* throws a TypeError (no statusCode), caught and logged; attempt++
SignOnUndefined ==
    /\ sign.pc = "loop"
    /\ LoopGuard(sign.index, Len(sign.preparedOptions), sign.attempt, sign.attempts)
    /\ tonTransport = Undefined
    /\ sign' = [sign EXCEPT
                   !.index = IndexAfterFailure(@),
                   !.attempt = @ + 1,
                   !.transientFailures = @ + 1,
                   !.attempted = @ \cup {sign.index}]
    /\ UNCHANGED <<transport, tonTransport, wait, clock, conn, wallets, submit, query>>

\* lines 454-467, 474: the signature arrived
SignResolves ==
    /\ sign.pc = "signing"
    /\ LET options == Get(sign.inflight)
           message == sign.messages[sign.index + 1]
       IN sign' = [sign EXCEPT
                      !.pc = "loop",
                      !.inflight = Undefined,
                      !.signedMessages = Append(@, SignedTransfer(options, message)),
                      !.index = IndexAfterSuccess(@),
                      !.attempt = AttemptAfterSuccess(@),
                      !.lastCall = Some([seqno |-> options.seqno, status |-> "ok"])]
    /\ UNCHANGED <<transport, tonTransport, wait, clock, conn, wallets, submit, query>>

\* lines 468-474: the call threw
SignThrows(statusCode) ==
    /\ sign.pc = "signing"
    /\ IF IsUserRejection(statusCode)
       THEN sign' = [sign EXCEPT
                        !.pc = "thrown",
                        !.inflight = Undefined,
                        !.error = "ApiUserRejectsError",
                        !.transportError = @ \/ IsTransportError(statusCode),
                        !.declined = @ \/ statusCode = CONDITIONS_OF_USE_NOT_SATISFIED,
                        !.lastCall = Some([seqno |-> Get(sign.inflight).seqno,
                                           status |-> "failed"])]
       ELSE sign' = [sign EXCEPT
                        !.pc = "loop",
                        !.inflight = Undefined,
                        !.index = IndexAfterFailure(@),
                        !.attempt = @ + 1,
                        !.transientFailures =
                            IF statusCode = CONDITIONS_OF_USE_NOT_SATISFIED THEN @ ELSE @ + 1,
                        !.transportError = @ \/ IsTransportError(statusCode),
                        !.declined = @ \/ statusCode = CONDITIONS_OF_USE_NOT_SATISFIED,
                        !.lastCall = Some([seqno |-> Get(sign.inflight).seqno,
                                           status |-> "failed"])]
    /\ transport' = SessionAfterSignError(transport, statusCode)
    /\ tonTransport' = SessionAfterSignError(tonTransport, statusCode)
    /\ UNCHANGED <<wait, clock, conn, wallets, submit, query>>

\* lines 449, 477: the loop guard fails; return signedMessages
SignReturn ==
    /\ sign.pc = "loop"
    /\ ~LoopGuard(sign.index, Len(sign.preparedOptions), sign.attempt, sign.attempts)
    /\ sign' = [sign EXCEPT !.pc = "returned", !.result = sign.signedMessages]
    /\ UNCHANGED <<transport, tonTransport, wait, clock, conn, wallets, submit, query>>

SignNext ==
    \/ SignCall
    \/ \E w \in WalletSeqnos : FetchWalletSeqno(w)
    \/ KeepSeqno
    \/ Prepare
    \/ SignTransaction
    \/ SignOnUndefined
    \/ SignResolves
    \/ \E statusCode \in SignErrorCodes : SignThrows(statusCode)
    \/ SignReturn

(***************************************************************************)
(* waitLedgerTonApp / checkTonApp / waitLedgerTonAppDeadline               *)
(*                                                                         *)
(* Time is the variable clock (ms).  A pending timer or device answer has  *)
(* a due time; the event loop runs what is due before time moves on, and   *)
(* Tick moves the clock to the next due time.  An answer that never comes  *)
(* has no due time.                                                        *)
(***************************************************************************)
WaitIdle ==
    [ pc |-> "idle",             \* checkTonApp: idle, isAppOpen, getAddress, pause, returned
      i |-> 0,                   \* loop counter of checkTonApp
      probeDue |-> Undefined,    \* when the awaited device call settles
      pauseDue |-> Undefined,    \* when pause(PAUSE) resolves
      deadlineDue |-> Undefined, \* when the setTimeout of waitLedgerTonAppDeadline fires
      checkResult |-> Undefined, \* what checkTonApp returned
      raceResult |-> Undefined,  \* what the Promise.race resolved to
      resolvedAt |-> Undefined,  \* history: clock when the race resolved
      openIn |-> Undefined,      \* history: the iteration in which isAppOpen last answered true
      lastProbe |-> "none" ]     \* history: how this iteration's probing ended: none (not
                                 \* yet), closed, derived (getAddress answered), failed

\* how long a device call takes: no time, ProbeDelay, or for ever
ProbeDurations == {Some(0), Some(ProbeDelay), Undefined}

\* messages of the errors a probe throws: the "locked" code, or another.
\* Every error of the transport library (and the TypeError of a call on an
\* undefined tonTransport) is an Error with a message string, so
\* `err?.message.includes(...)` at line 106 does not throw itself.
ProbeErrors == {"0x530c", "0x6e01"}

DueAfter(duration) == IF duration = Undefined THEN Undefined ELSE Some(clock + Get(duration))

\* DeadlineDelay counting one pause more than checkTonApp makes
DeadlineDelayOnePauseMore == PAUSE * (ATTEMPTS + 1)

\* setTimeout(..., PAUSE * ATTEMPTS)
DeadlineDelay == PAUSE * ATTEMPTS

\* for (let i = 0; i < ATTEMPTS; i++)
CheckLoopGuard(i) == i < ATTEMPTS

\* Promise.race: the first promise to settle decides, later ones are ignored
Race(w, v) ==
    IF w.raceResult = Undefined
    THEN [w EXCEPT !.raceResult = Some(v), !.resolvedAt = Some(clock)]
    ELSE w

\* checkTonApp from the loop guard to its next await (lines 94-96, 105-114):
\* return false after the last iteration; with tonTransport undefined
\* `tonTransport!.isAppOpen()` throws a TypeError, which is caught and
\* logged, and the loop pauses; otherwise isAppOpen is sent to the device
StartIteration(w, duration) ==
    IF ~CheckLoopGuard(w.i)
    THEN Race([w EXCEPT !.pc = "returned", !.checkResult = Some(FALSE)], FALSE)
    ELSE IF tonTransport = Undefined
    THEN [w EXCEPT !.pc = "pause", !.pauseDue = Some(clock + PAUSE), !.lastProbe = "failed"]
    ELSE [w EXCEPT !.pc = "isAppOpen", !.probeDue = DueAfter(duration), !.lastProbe = "none"]

\* the catch block and `await pause(PAUSE)` (lines 105-111)
StartPause(w) ==
    [w EXCEPT !.pc = "pause", !.probeDue = Undefined, !.pauseDue = Some(clock + PAUSE)]

\* SessionAfterProbeError that drops the signer when a probe threw
SessionClearedOnProbeError(handle, message) == Undefined

\* tonTransport after a probe of checkTonApp threw: the catch block (lines
\* 105-109) only logs
SessionAfterProbeError(handle, message) == handle

\* CatchProbeError taking the "locked" code for an open, unlocked app
CatchLockedAsOpen(w, message) ==
    IF message = "0x530c"
    THEN Race([w EXCEPT !.pc = "returned", !.probeDue = Undefined,
                        !.checkResult = Some(TRUE), !.lastProbe = "failed"], TRUE)
    ELSE StartPause([w EXCEPT !.lastProbe = "failed"])

\* lines 105-111: a probe threw; the error is logged unless its message has
\* the code 0x530c, and either way the loop goes on to its pause
CatchProbeError(w, message) == StartPause([w EXCEPT !.lastProbe = "failed"])

\* waitLedgerTonApp (lines 117-122): checkTonApp() runs to its first await,
\* then waitLedgerTonAppDeadline() arms the timer
WaitCall ==
    /\ wait.pc = "idle"
    /\ wait.deadlineDue = Undefined
    /\ \E duration \in ProbeDurations :
          wait' = [StartIteration([wait EXCEPT !.i = 0], duration)
                      EXCEPT !.deadlineDue = Some(clock + DeadlineDelay)]
    /\ UNCHANGED <<transport, tonTransport, sign, clock, conn, wallets, submit, query>>

\* line 96-101: isAppOpen answered; if open, getAddress(path of index 0) is sent
IsAppOpenResolves(isTonOpen) ==
    /\ wait.pc = "isAppOpen"
    /\ wait.probeDue = Some(clock)
    /\ IF isTonOpen
       THEN \E duration \in ProbeDurations :
               wait' = [wait EXCEPT !.pc = "getAddress", !.probeDue = DueAfter(duration),
                                    !.openIn = Some(wait.i)]
       ELSE wait' = StartPause([wait EXCEPT !.lastProbe = "closed"])
    /\ UNCHANGED <<transport, tonTransport, sign, clock, conn, wallets, submit, query>>

\* lines 96, 105-111: isAppOpen threw
IsAppOpenThrows(message) ==
    /\ wait.pc = "isAppOpen"
    /\ wait.probeDue = Some(clock)
    /\ message \in ProbeErrors
    /\ wait' = CatchProbeError(wait, message)
    /\ tonTransport' = SessionAfterProbeError(tonTransport, message)
    /\ UNCHANGED <<transport, sign, clock, conn, wallets, submit, query>>

\* lines 101-103: getAddress answered; return true
GetAddressResolves ==
    /\ wait.pc = "getAddress"
    /\ wait.probeDue = Some(clock)
    /\ wait' = Race([wait EXCEPT !.pc = "returned", !.probeDue = Undefined,
                                 !.checkResult = Some(TRUE),
                                 !.lastProbe = "derived"], TRUE)
    /\ UNCHANGED <<transport, tonTransport, sign, clock, conn, wallets, submit, query>>

\* lines 101, 105-111: getAddress threw (0x530c while the device is locked)
GetAddressThrows(message) ==
    /\ wait.pc = "getAddress"
    /\ wait.probeDue = Some(clock)
    /\ message \in ProbeErrors
    /\ wait' = CatchProbeError(wait, message)
    /\ tonTransport' = SessionAfterProbeError(tonTransport, message)
    /\ UNCHANGED <<transport, sign, clock, conn, wallets, submit, query>>

\* line 111, 94: the pause is over; i++ and the next iteration, or return false
PauseElapsed ==
    /\ wait.pc = "pause"
    /\ wait.pauseDue = Some(clock)
    /\ \E duration \in ProbeDurations :
          wait' = StartIteration([wait EXCEPT !.i = @ + 1, !.pauseDue = Undefined], duration)
    /\ UNCHANGED <<transport, tonTransport, sign, clock, conn, wallets, submit, query>>

\* lines 87-89: the timer fires; resolve(false)
DeadlineFires ==
    /\ wait.deadlineDue = Some(clock)
    /\ wait' = Race([wait EXCEPT !.deadlineDue = Undefined], FALSE)
    /\ UNCHANGED <<transport, tonTransport, sign, clock, conn, wallets, submit, query>>

\* due times of what is pending
PendingDue == {Get(d) : d \in {wait.probeDue, wait.pauseDue, wait.deadlineDue} \ {Undefined}}

\* time passes up to the next due time
Tick ==
    /\ PendingDue # {}
    /\ \A t \in PendingDue : t > clock
    /\ clock' = Min(PendingDue)
    /\ UNCHANGED <<transport, tonTransport, sign, wait, conn, wallets, submit, query>>

WaitNext ==
    \/ WaitCall
    \/ \E isTonOpen \in BOOLEAN : IsAppOpenResolves(isTonOpen)
    \/ \E message \in ProbeErrors : IsAppOpenThrows(message)
    \/ GetAddressResolves
    \/ \E message \in ProbeErrors : GetAddressThrows(message)
    \/ PauseElapsed
    \/ DeadlineFires
    \/ Tick

(***************************************************************************)
(* connectLedger / connectHID / connectUSB                                 *)
(*                                                                         *)
(* Every call of connectLedger is a process of ConnProcs; calls may follow *)
(* one another or overlap at their awaits.                                 *)
(***************************************************************************)
\* the connectLedger calls of one behaviour; a call's name also names the
\* transport object it creates
ConnProcs == {1, 2}

ConnIdle ==
    [ pc |-> "idle",          \* idle, list, create, pause, open, returned
      kind |-> "none",        \* the transport kind chosen: HID, USB
      i |-> 0,                \* loop counter of connectHID / connectUSB
      result |-> Undefined,   \* what connectLedger returned
      error |-> "none",       \* what the try block of connectLedger threw or logged
      \* history of the call
      listCalls |-> 0,        \* Transport.list() calls
      deviceSeen |-> FALSE ]  \* list() answered with a device

\* no connectLedger call has been made
ConnAllIdle == [p \in ConnProcs |-> ConnIdle]

\* what list() answers with: no device, or the first device and its `opened`
ListAnswers == {Undefined, Some([opened |-> TRUE]), Some([opened |-> FALSE])}

\* ConnectLoopGuard with `<=` for `<`
ConnectLoopGuardInclusive(i) == i <= ATTEMPTS

\* for (let i = 0; i < ATTEMPTS; i++)
ConnectLoopGuard(i) == i < ATTEMPTS

\* connectLedger's catch block and its "not supported" branch: return false
ConnectFails(c, error) == [c EXCEPT !.pc = "returned", !.result = Some(FALSE), !.error = error]

\* connectHID / connectUSB from the loop guard to the next await: list(), or
\* throw new Error('Failed to connect') into connectLedger's catch
StartAttempt(c) ==
    IF ConnectLoopGuard(c.i)
    THEN [c EXCEPT !.pc = "list", !.listCalls = @ + 1]
    ELSE ConnectFails(c, "Failed to connect")

\* lines 67-76: the two isSupported() probes choose the kind
ConnectCall(p) ==
    /\ conn[p].pc = "idle"
    /\ \E hid \in BOOLEAN, usb \in BOOLEAN :
          conn' = [conn EXCEPT ![p] =
                      IF hid THEN StartAttempt([@ EXCEPT !.kind = "HID"])
                      ELSE IF usb THEN StartAttempt([@ EXCEPT !.kind = "USB"])
                      ELSE ConnectFails(@, "HID and/or USB are not supported")]
    /\ UNCHANGED <<transport, tonTransport, sign, wait, clock, wallets, submit, query>>

\* Connected that leaves the signer of the earlier transport in place
ConnectedKeepsSigner(p, c) ==
    /\ transport' = Some(Transport(c.kind, p))
    /\ tonTransport' = tonTransport
    /\ conn' = [conn EXCEPT ![p] = [c EXCEPT !.pc = "returned", !.result = Some(TRUE)]]

\* lines 70/72, 77-78: the awaited transport arrived; `transport = ...` and
\* `tonTransport = new TonTransport(transport)` run with no await between
\* them, then return true
Connected(p, c) ==
    /\ transport' = Some(Transport(c.kind, p))
    /\ tonTransport' = Some(TonTransport(Transport(c.kind, p)))
    /\ conn' = [conn EXCEPT ![p] = [c EXCEPT !.pc = "returned", !.result = Some(TRUE)]]

\* lines 126-138 / 146-158: list() answered
ListResolves(p, answer) ==
    /\ conn[p].pc = "list"
    /\ IF answer = Undefined
       THEN \* if (!device): await create()
            /\ conn' = [conn EXCEPT ![p].pc = "create"]
            /\ UNCHANGED <<transport, tonTransport>>
       ELSE IF conn[p].kind = "HID" /\ Get(answer).opened
       THEN \* return new TransportWebHID(device)
            Connected(p, [conn[p] EXCEPT !.deviceSeen = TRUE])
       ELSE \* open(device), or openConnected() ?? request()
            /\ conn' = [conn EXCEPT ![p].pc = "open", ![p].deviceSeen = TRUE]
            /\ UNCHANGED <<transport, tonTransport>>
    /\ UNCHANGED <<sign, wait, clock, wallets, submit, query>>

\* list() rejected: caught at line 79
ListThrows(p) ==
    /\ conn[p].pc = "list"
    /\ conn' = [conn EXCEPT ![p] = ConnectFails(@, "list failed")]
    /\ UNCHANGED <<transport, tonTransport, sign, wait, clock, wallets, submit, query>>

\* lines 129-130: create() resolved (its transport is dropped); pause(PAUSE)
CreateResolves(p) ==
    /\ conn[p].pc = "create"
    /\ conn' = [conn EXCEPT ![p].pc = "pause"]
    /\ UNCHANGED <<transport, tonTransport, sign, wait, clock, wallets, submit, query>>

\* create() rejected (the user closed the device chooser): caught at line 79
CreateThrows(p) ==
    /\ conn[p].pc = "create"
    /\ conn' = [conn EXCEPT ![p] = ConnectFails(@, "create failed")]
    /\ UNCHANGED <<transport, tonTransport, sign, wait, clock, wallets, submit, query>>

\* lines 130-131, 125: the pause is over; continue; i++
ConnectPauseElapsed(p) ==
    /\ conn[p].pc = "pause"
    /\ conn' = [conn EXCEPT ![p] = StartAttempt([@ EXCEPT !.i = @ + 1])]
    /\ UNCHANGED <<transport, tonTransport, sign, wait, clock, wallets, submit, query>>

\* lines 137 / 155-157: the device was opened
OpenResolves(p) ==
    /\ conn[p].pc = "open"
    /\ Connected(p, conn[p])
    /\ UNCHANGED <<sign, wait, clock, wallets, submit, query>>

\* open() / request() rejected: caught at line 79
OpenThrows(p) ==
    /\ conn[p].pc = "open"
    /\ conn' = [conn EXCEPT ![p] = ConnectFails(@, "open failed")]
    /\ UNCHANGED <<transport, tonTransport, sign, wait, clock, wallets, submit, query>>

ConnectNext ==
    \E p \in ConnProcs :
        \/ ConnectCall(p)
        \/ \E answer \in ListAnswers : ListResolves(p, answer)
        \/ ListThrows(p)
        \/ CreateResolves(p)
        \/ CreateThrows(p)
        \/ ConnectPauseElapsed(p)
        \/ OpenResolves(p)
        \/ OpenThrows(p)

(***************************************************************************)
(* getNextLedgerWallets / getLedgerWalletInfo                              *)
(***************************************************************************)
\* balances getWalletBalance answers with
Balances == {0, 3, 5}

\* the ledger account indices that hold or held anything; the wallet of
\* index i has the address AddressOf(i)
Indices == 0..MaxIndex

AddressOf(i) == <<"acct", i>>

WalletsIdle ==
    [ pc |-> "idle",              \* idle, walletInfo, returned, serverError
      balance |-> [i \in Indices |-> 0],  \* the chain: balance of the wallet of index i
      lastExistingIndex |-> -1,   \* argument
      alreadyImportedAddresses |-> {},   \* argument
      index |-> 0,
      result |-> <<>> ]           \* the list collected; returned when pc = "returned"

\* getWalletBalance for the wallet of index i (nothing beyond MaxIndex)
BalanceOf(w, i) == IF i \in Indices THEN w.balance[i] ELSE 0

\* getLedgerWalletInfo's result
WalletInfo(w, i) == [index |-> i, address |-> AddressOf(i), balance |-> BalanceOf(w, i)]

\* IsAlreadyImported with the filter lost
IsAlreadyImportedNever(w, address) == FALSE

\* alreadyImportedAddresses.includes(walletInfo.address)
IsAlreadyImported(w, address) == address \in w.alreadyImportedAddresses

\* `if (!result.length)` with every empty account recorded
RecordsEmptyWalletAlways(result) == TRUE

\* `if (!result.length)`: an empty wallet is recorded only as the first element
RecordsEmptyWallet(result) == Len(result) = 0

\* lines 498-504: the call, up to the first await of getLedgerWalletInfo
WalletsCall ==
    /\ wallets.pc = "idle"
    /\ \E balance \in [Indices -> Balances],
          last \in -1..(MaxIndex - 1),
          imported \in SUBSET {AddressOf(i) : i \in Indices} :
          wallets' = [wallets EXCEPT !.pc = "walletInfo", !.balance = balance,
                                     !.lastExistingIndex = last,
                                     !.alreadyImportedAddresses = imported,
                                     !.index = last + 1,
                                     !.result = <<>>]
    /\ UNCHANGED <<transport, tonTransport, sign, wait, clock, conn, submit, query>>

\* lines 504-522: getLedgerWalletInfo(network, index) answered; one iteration
WalletInfoResolves ==
    /\ wallets.pc = "walletInfo"
    /\ tonTransport # Undefined
    /\ LET walletInfo == WalletInfo(wallets, wallets.index)
       IN IF IsAlreadyImported(wallets, walletInfo.address)
          THEN wallets' = [wallets EXCEPT !.index = @ + 1]
          ELSE IF walletInfo.balance # 0
          THEN wallets' = [wallets EXCEPT !.result = Append(@, walletInfo), !.index = @ + 1]
          ELSE LET result == IF RecordsEmptyWallet(wallets.result)
                             THEN Append(wallets.result, walletInfo)
                             ELSE wallets.result
               IN wallets' = [wallets EXCEPT !.pc = "returned", !.result = result]
    /\ UNCHANGED <<transport, tonTransport, sign, wait, clock, conn, submit, query>>

\* lines 523-525: getLedgerWalletInfo threw (the device, the backend, or the
\* TypeError of `tonTransport!.getAddress` on an undefined tonTransport);
\* return handleServerError(err)
WalletInfoThrows ==
    /\ wallets.pc = "walletInfo"
    /\ wallets' = [wallets EXCEPT !.pc = "serverError"]
    /\ UNCHANGED <<transport, tonTransport, sign, wait, clock, conn, submit, query>>

WalletsNext ==
    \/ WalletsCall
    \/ WalletInfoResolves
    \/ WalletInfoThrows

(***************************************************************************)
(* submitLedgerTransfer / buildLedgerTokenTransfer                         *)
(***************************************************************************)
\* ApiSubmitTransferOptions as far as the control flow reads them: the
\* recipient's address form, tokenAddress ("" when absent), comment ("" when
\* absent) and whether amount equals the wallet's balance
SubmitOptions ==
    [ toAddress : {"EQ-friendly", "UQ-friendly", "raw"},
      tokenAddress : {"", "jetton minter"},
      comment : {"", "valid text", "invalid text"},
      amountIsBalance : BOOLEAN ]

\* what the device or the transport library throws at a single signing
\* call: a user rejection, another status code, no status code (transport)
SubmitErrorCodes == {CONDITIONS_OF_USE_NOT_SATISFIED, 21781, 0}

SubmitIdle ==
    [ pc |-> "idle",          \* idle, backend, tokenTransfer, signing, broadcast, returned, thrown
      options |-> [toAddress |-> "EQ-friendly", tokenAddress |-> "",
                   comment |-> "", amountIsBalance |-> FALSE],
      isBounceable |-> FALSE, \* local `isBounceable`
      payload |-> "undefined",\* type of local `payload`
      inflight |-> Undefined, \* the request the device is signing
      result |-> Undefined,   \* the value returned
      error |-> "none",       \* message of the Error the call rejected with
      signCalls |-> 0,        \* history: calls of tonTransport.signTransaction
      signOutcome |-> "none", \* history: none, resolved, threw
      transportError |-> FALSE, \* history: the signing call threw an error of the transport
      broadcastCalls |-> 0 ]  \* history: calls of sendSignedTransferMessage

\* lines 252-256
SubmitSendMode(options) ==
    IF options.tokenAddress = "" /\ options.amountIsBalance
    THEN "CARRY_ALL_REMAINING_BALANCE"
    ELSE "PAY_GAS_SEPARATELY + IGNORE_ERRORS"

\* the object passed to signTransaction at lines 259-267 (to is the token
\* wallet for a token transfer)
SubmitRequest(s) ==
    [ to |-> IF s.options.tokenAddress = "" THEN s.options.toAddress ELSE "token wallet",
      sendMode |-> SubmitSendMode(s.options),
      bounce |-> s.isBounceable,
      payload |-> s.payload ]

\* lines 258-267, 284-287: the try block up to the awaited signing call; on
\* an undefined tonTransport `tonTransport!.signTransaction` throws a
\* TypeError, which the catch logs, and the function returns undefined
SubmitSign(s) ==
    IF tonTransport = Undefined
    THEN [s EXCEPT !.pc = "returned", !.result = Undefined,
                   !.signCalls = @ + 1, !.signOutcome = "threw"]
    ELSE [s EXCEPT !.pc = "signing", !.inflight = Some(SubmitRequest(s)),
                   !.signCalls = @ + 1]

\* SubmitSignFailed that broadcasts whatever the signing call left
SubmitSignFailedBroadcasts(s) ==
    [s EXCEPT !.pc = "broadcast", !.inflight = Undefined, !.signOutcome = "threw",
              !.broadcastCalls = @ + 1]

\* lines 284-287: the catch block after the signing call threw
SubmitSignFailed(s) ==
    [s EXCEPT !.pc = "returned", !.inflight = Undefined, !.result = Undefined,
              !.signOutcome = "threw"]

\* isBounceable of a single token transfer as the recipient address declares it
TokenBounceAsDeclared(isBounceable) == isBounceable

\* line 243: isBounceable = true
TokenBounce(isBounceable) == TRUE

\* line 212-222: the call, up to `await callApi('waitLastTransfer', ...)`
SubmitCall ==
    /\ submit.pc = "idle"
    /\ \E options \in SubmitOptions :
          submit' = [submit EXCEPT !.pc = "backend", !.options = options]
    /\ UNCHANGED <<transport, tonTransport, sign, wait, clock, conn, wallets, query>>

\* lines 222-257: waitLastTransfer, fetchAddress, the account path and
\* getWalletInfo answered; parseFriendly throws on an address that is not in
\* friendly form; a token transfer goes on to buildLedgerTokenTransfer, a
\* comment is checked, and the signing call is made
SubmitBackendResolves ==
    /\ submit.pc = "backend"
    /\ submit' =
          LET o == submit.options
              parsed == [submit EXCEPT !.isBounceable = parseFriendlyIsBounceable(o.toAddress)]
          IN IF ~isFriendly(o.toAddress)
             THEN [submit EXCEPT !.pc = "thrown", !.error = "Unknown address type"]
             ELSE IF o.tokenAddress # ""
             THEN [parsed EXCEPT !.pc = "tokenTransfer"]
             ELSE IF o.comment # ""
             THEN IF isValidLedgerComment(o.comment)
                  THEN SubmitSign([parsed EXCEPT !.payload = "comment"])
                  ELSE [parsed EXCEPT !.pc = "thrown", !.error = "Unsupported format"]
             ELSE SubmitSign(parsed)
    /\ UNCHANGED <<transport, tonTransport, sign, wait, clock, conn, wallets, query>>

\* lines 222-233: the backend gave no wallet info (callApi resolved to
\* undefined): destructuring `walletInfo!` throws outside the try block
SubmitBackendFails ==
    /\ submit.pc = "backend"
    /\ submit' = [submit EXCEPT !.pc = "thrown", !.error = "TypeError"]
    /\ UNCHANGED <<transport, tonTransport, sign, wait, clock, conn, wallets, query>>

\* lines 239-243, 298-323: buildLedgerTokenTransfer answered; the minter of
\* the resolved token wallet is compared with tokenAddress
TokenTransferResolves(realTokenAddress) ==
    /\ submit.pc = "tokenTransfer"
    /\ submit' =
          IF submit.options.tokenAddress # realTokenAddress
          THEN [submit EXCEPT !.pc = "thrown", !.error = "Invalid contract"]
          ELSE SubmitSign([submit EXCEPT !.payload = "jetton-transfer",
                                         !.isBounceable = TokenBounce(@)])
    /\ UNCHANGED <<transport, tonTransport, sign, wait, clock, conn, wallets, query>>

\* lines 258-283: the device signed; sendSignedTransferMessage is called
SubmitSignResolves ==
    /\ submit.pc = "signing"
    /\ submit' = [submit EXCEPT !.pc = "broadcast", !.inflight = Undefined,
                                !.signOutcome = "resolved",
                                !.broadcastCalls = @ + 1]
    /\ UNCHANGED <<transport, tonTransport, sign, wait, clock, conn, wallets, query>>

\* lines 258, 284-287: the signing call threw
SubmitSignThrows(statusCode) ==
    /\ submit.pc = "signing"
    /\ statusCode \in SubmitErrorCodes
    /\ submit' = [SubmitSignFailed(submit) EXCEPT !.transportError = IsTransportError(statusCode)]
    /\ transport' = SessionAfterSignError(transport, statusCode)
    /\ tonTransport' = SessionAfterSignError(tonTransport, statusCode)
    /\ UNCHANGED <<sign, wait, clock, conn, wallets, query>>

\* line 283: the broadcaster answered; its result (undefined when it failed
\* on the backend) is returned
BroadcastResolves(result) ==
    /\ submit.pc = "broadcast"
    /\ submit' = [submit EXCEPT !.pc = "returned", !.result = result]
    /\ UNCHANGED <<transport, tonTransport, sign, wait, clock, conn, wallets, query>>

\* lines 283-287: `return await` inside the try: a rejection of the
\* broadcaster is caught as well
BroadcastThrows ==
    /\ submit.pc = "broadcast"
    /\ submit' = [submit EXCEPT !.pc = "returned", !.result = Undefined]
    /\ UNCHANGED <<transport, tonTransport, sign, wait, clock, conn, wallets, query>>

SubmitNext ==
    \/ SubmitCall
    \/ SubmitBackendResolves
    \/ SubmitBackendFails
    \/ \E realTokenAddress \in {"jetton minter", "other minter"} :
          TokenTransferResolves(realTokenAddress)
    \/ SubmitSignResolves
    \/ \E statusCode \in SubmitErrorCodes : SubmitSignThrows(statusCode)
    \/ \E result \in {Undefined, Some("sent")} : BroadcastResolves(result)
    \/ BroadcastThrows

(***************************************************************************)
(* signLedgerProof / verifyAddress                                         *)
(***************************************************************************)
QueryFunctions == {"signLedgerProof", "verifyAddress"}

QueryIdle ==
    [ pc |-> "idle",        \* idle, path, device, returned, thrown
      fn |-> "none",        \* the function called
      error |-> "none" ]    \* what the call rejected with

\* lines 480-481 / 553-554: the call, up to `await getLedgerAccountPath(accountId)`
QueryCall(fn) ==
    /\ query.pc = "idle"
    /\ query' = [query EXCEPT !.pc = "path", !.fn = fn]
    /\ UNCHANGED <<transport, tonTransport, sign, wait, clock, conn, wallets, submit>>

\* lines 485 / 556: the path arrived; getAddressProof / validateAddress is
\* sent to the device, or `tonTransport!` on an undefined signer throws
QueryPathResolves ==
    /\ query.pc = "path"
    /\ query' = IF tonTransport = Undefined
                THEN [query EXCEPT !.pc = "thrown", !.error = "TypeError"]
                ELSE [query EXCEPT !.pc = "device"]
    /\ UNCHANGED <<transport, tonTransport, sign, wait, clock, conn, wallets, submit>>

\* lines 560-564: fetchAccount gave no ledger account
QueryPathThrows ==
    /\ query.pc = "path"
    /\ query' = [query EXCEPT !.pc = "thrown", !.error = "TypeError"]
    /\ UNCHANGED <<transport, tonTransport, sign, wait, clock, conn, wallets, submit>>

\* lines 485-490 / 556: the device answered
QueryDeviceResolves ==
    /\ query.pc = "device"
    /\ query' = [query EXCEPT !.pc = "returned"]
    /\ UNCHANGED <<transport, tonTransport, sign, wait, clock, conn, wallets, submit>>

\* lines 485 / 556: the device call threw; neither function catches
QueryDeviceThrows ==
    /\ query.pc = "device"
    /\ query' = [query EXCEPT !.pc = "thrown", !.error = "device error"]
    /\ UNCHANGED <<transport, tonTransport, sign, wait, clock, conn, wallets, submit>>

QueryNext ==
    \/ \E fn \in QueryFunctions : QueryCall(fn)
    \/ QueryPathResolves
    \/ QueryPathThrows
    \/ QueryDeviceResolves
    \/ QueryDeviceThrows

(***************************************************************************)
(* Specifications                                                          *)
(***************************************************************************)

\* signLedgerTransactions called once, on the session an earlier
\* connectLedger left: still undefined (it failed) or connected
SignInit ==
    /\ SessionUndefined \/ SessionConnected
    /\ sign = SignIdle
    /\ wait = WaitIdle
    /\ clock = 0
    /\ conn = ConnAllIdle
    /\ wallets = WalletsIdle
    /\ submit = SubmitIdle
    /\ query = QueryIdle

SpecSign == SignInit /\ [][SignNext]_vars

\* waitLedgerTonApp called once, on either session
WaitInit ==
    /\ SessionUndefined \/ SessionConnected
    /\ sign = SignIdle
    /\ wait = WaitIdle
    /\ clock = 0
    /\ conn = ConnAllIdle
    /\ wallets = WalletsIdle
    /\ submit = SubmitIdle
    /\ query = QueryIdle

SpecWait == WaitInit /\ [][WaitNext]_vars

\* connectLedger called by each of ConnProcs, on either session
ConnectInit ==
    /\ SessionUndefined \/ SessionConnected
    /\ sign = SignIdle
    /\ wait = WaitIdle
    /\ clock = 0
    /\ conn = ConnAllIdle
    /\ wallets = WalletsIdle
    /\ submit = SubmitIdle
    /\ query = QueryIdle

SpecConnect == ConnectInit /\ [][ConnectNext]_vars

\* getNextLedgerWallets called once, on either session
WalletsInit ==
    /\ SessionUndefined \/ SessionConnected
    /\ sign = SignIdle
    /\ wait = WaitIdle
    /\ clock = 0
    /\ conn = ConnAllIdle
    /\ wallets = WalletsIdle
    /\ submit = SubmitIdle
    /\ query = QueryIdle

SpecWallets == WalletsInit /\ [][WalletsNext]_vars

\* submitLedgerTransfer called once, on either session
SubmitInit ==
    /\ SessionUndefined \/ SessionConnected
    /\ sign = SignIdle
    /\ wait = WaitIdle
    /\ clock = 0
    /\ conn = ConnAllIdle
    /\ wallets = WalletsIdle
    /\ submit = SubmitIdle
    /\ query = QueryIdle

SpecSubmit == SubmitInit /\ [][SubmitNext]_vars

\* one transfer request on either session: a batch given to
\* signLedgerTransactions or a single transfer given to submitLedgerTransfer
TransfersNext ==
    \/ (submit = SubmitIdle /\ SignNext)
    \/ (sign = SignIdle /\ SubmitNext)

SpecTransfers == SubmitInit /\ [][TransfersNext]_vars

\* one of the module's functions called on either session (connectLedger by
\* each of ConnProcs): the runs of SpecSign, SpecWait, SpecConnect,
\* SpecWallets, SpecSubmit and of signLedgerProof / verifyAddress
OthersIdle(own) ==
    /\ own = "sign" \/ sign = SignIdle
    /\ own = "wait" \/ wait = WaitIdle
    /\ own = "conn" \/ conn = ConnAllIdle
    /\ own = "wallets" \/ wallets = WalletsIdle
    /\ own = "submit" \/ submit = SubmitIdle
    /\ own = "query" \/ query = QueryIdle

CallsNext ==
    \/ (OthersIdle("conn") /\ ConnectNext)
    \/ (OthersIdle("wait") /\ WaitNext)
    \/ (OthersIdle("sign") /\ SignNext)
    \/ (OthersIdle("wallets") /\ WalletsNext)
    \/ (OthersIdle("submit") /\ SubmitNext)
    \/ (OthersIdle("query") /\ QueryNext)

SpecCalls == ConnectInit /\ [][CallsNext]_vars

\* a caller that awaits waitLedgerTonApp on a connected session and then
\* makes one transfer request: a batch of one plain message given to
\* signLedgerTransactions at wallet seqno 1, or a plain single transfer given to
\* submitLedgerTransfer.  The polling loop of checkTonApp is not cancelled
\* when the race is decided, so its steps go on beside the request's.
PlainBatch ==
    /\ sign.messages \in {<<>>, <<Message("EQ-friendly", "undefined", "")>>}
    /\ sign.seqnoArg \in {Undefined, Some(1)}
    /\ sign.seqno \in {Undefined, Some(1)}

PlainTransfer ==
    submit.options = [toAddress |-> "EQ-friendly", tokenAddress |-> "",
                      comment |-> "", amountIsBalance |-> FALSE]

SessionInit == SubmitInit /\ SessionConnected

SessionNext ==
    \/ WaitNext
    \/ (wait.raceResult # Undefined /\ submit = SubmitIdle /\ SignNext /\ PlainBatch')
    \/ (wait.raceResult # Undefined /\ sign = SignIdle /\ SubmitNext /\ PlainTransfer')

SpecSession == SessionInit /\ [][SessionNext]_vars

\* the module after loading, with the functions called at any time and
\* interleaved at their awaits; SpecSign, SpecWait, SpecConnect, SpecWallets
\* and SpecSubmit are its runs of one function each
Init == ConnectInit /\ SessionUndefined

Next == ConnectNext \/ WaitNext \/ SignNext \/ WalletsNext \/ SubmitNext \/ QueryNext

Spec == Init /\ [][Next]_vars

(***************************************************************************)
(* Properties of signLedgerTransactions                                    *)
(***************************************************************************)
BatchSize == Len(sign.messages)

\* the list a run of the current batch returns when no call fails: one
\* element per message, in message order, numbered from `base`
NoFailureResult(base) ==
    [i \in 1..BatchSize |->
        [ base64 |-> <<"boc", [ to |-> sign.messages[i].toAddress,
                                sendMode |-> "PAY_GAS_SEPARATELY + IGNORE_ERRORS",
                                seqno |-> base + (i - 1),
                                bounce |-> Bounce(sign.messages[i]),
                                payload |-> LedgerPayloadType(sign.messages[i].payload) ]>>,
          seqno |-> base + (i - 1),
          params |-> [ toAddress |-> sign.messages[i].toAddress,
                       comment |-> IF sign.messages[i].payload.type = "comment"
                                   THEN sign.messages[i].payload.comment
                                   ELSE "undefined" ] ]]

\* C1 (as claimed): a run with a seqno argument S in which every signing call
\* succeeds returns exactly N results, the i-th (0-based) with seqno S + i.
C1_ResultsNumberedFromArgument ==
    (sign.pc = "returned" /\ sign.seqnoArg # Undefined /\ sign.transientFailures = 0)
        => /\ Len(sign.result) = BatchSize
           /\ \A i \in 1..Len(sign.result) :
                 sign.result[i].seqno = Get(sign.seqnoArg) + (i - 1)

\* C2: once a signing call failed with the "user declined" status code the
\* run has thrown ApiUserRejectsError (it returns no list, not even the
\* results signed so far), no call is in flight, and no signing call is
\* issued afterwards.
C2_UserDeclinedAborts ==
    /\ [](sign.declined =>
            /\ sign.pc = "thrown"
            /\ sign.error = "ApiUserRejectsError"
            /\ sign.result = <<>>
            /\ sign.inflight = Undefined)
    /\ [][sign.declined =>
            /\ sign'.signCalls = sign.signCalls
            /\ sign'.attempted = sign.attempted
            /\ sign'.pc = "thrown"]_vars

\* C2 witness: the user declined item 1 after item 0 had been signed
C2_Witness ==
    /\ sign.declined
    /\ sign.pc = "thrown"
    /\ Len(sign.signedMessages) = 1
    /\ BatchSize >= 2

\* C3: a run with exactly one transient failure returns the list of the run
\* with no failure: N results numbered base .. base + N - 1 in request order,
\* base being the starting sequence number of the run (`seqno` at line 434).
C3_RetryInvisible ==
    (sign.pc = "returned" /\ sign.transientFailures = 1)
        => /\ Len(sign.result) = BatchSize
           /\ sign.result = NoFailureResult(Get(sign.seqno))

\* C3 witness: three requests, one transient failure, all returned
C3_Witness ==
    /\ sign.pc = "returned"
    /\ sign.transientFailures = 1
    /\ BatchSize >= 2
    /\ Len(sign.result) = BatchSize

\* C4 (as claimed): every request of a batch that returned (was not aborted
\* by a rejection) received at least one signing attempt.
C4_EveryRequestAttempted ==
    sign.pc = "returned" => sign.attempted = 0..(BatchSize - 1)

\* C4 (amended): every request of a returned batch received at least one
\* signing attempt provided at most ATTEMPTS attempts failed with a
\* transient error.
C4_AttemptedWithinBudget ==
    (sign.pc = "returned" /\ sign.transientFailures <= ATTEMPTS)
        => sign.attempted = 0..(BatchSize - 1)

\* C4 witness: ATTEMPTS transient failures and still every request attempted
C4_Witness ==
    /\ sign.pc = "returned"
    /\ sign.transientFailures = ATTEMPTS
    /\ BatchSize >= 2
    /\ sign.attempted = 0..(BatchSize - 1)

\* C5: the signing calls sent to the device start at the base seqno; each
\* later call repeats the seqno of a failed call or is one above the seqno
\* of a successful one; and the collected list is at every point the prefix
\* base .. base + k - 1 of the requests in their order.
C5_CallsInSeqnoOrder ==
    /\ [](sign.pc \in {"loop", "signing", "returned"} =>
            /\ Len(sign.signedMessages) = sign.index
            /\ Len(sign.signedMessages) <= BatchSize
            /\ \A i \in 1..Len(sign.signedMessages) :
                  /\ sign.signedMessages[i].seqno = Get(sign.seqno) + (i - 1)
                  /\ sign.signedMessages[i].params.toAddress = sign.messages[i].toAddress)
    /\ [][sign'.signCalls # sign.signCalls =>
            LET new == Get(sign'.lastCall).seqno
            IN IF sign.lastCall = Undefined
               THEN new = Get(sign.seqno)
               ELSE \/ Get(sign.lastCall).status = "ok" /\ new = Get(sign.lastCall).seqno + 1
                    \/ Get(sign.lastCall).status = "failed" /\ new = Get(sign.lastCall).seqno]_vars

\* C5 witness: a call was retried after a failure and later items were signed
C5_Witness ==
    /\ sign.pc = "signing"
    /\ sign.transientFailures >= 1
    /\ Len(sign.signedMessages) >= 2
    /\ sign.signCalls >= 4

\* a payload the device does not support, stated on the input: an invalid
\* comment text, 'unknown', or a type the switch does not list
UnsupportedPayloadInput(message) ==
    \/ message.payload.type = "comment" /\ message.payload.comment = "invalid text"
    \/ message.payload.type \notin {"comment", "undefined", "nft:transfer", "tokens:transfer"}

\* C6: a batch with an unsupported payload at any position never reaches the
\* device: no signing call, no attempt consumed, nothing signed, and the
\* function throws out of the preparation.
C6_InvalidPayloadFailsBatchFirst ==
    (sign.pc # "idle" /\ \E i \in 1..BatchSize : UnsupportedPayloadInput(sign.messages[i]))
        => /\ sign.pc \in {"resolveSeqno", "prepare", "thrown"}
           /\ sign.signCalls = 0
           /\ sign.attempted = {}
           /\ sign.attempt = 0
           /\ sign.signedMessages = <<>>
           /\ sign.pc = "thrown" => sign.error \in {"Unsupported format", "Unknown address type"}

\* C6 witness: the batch failed on its last request, the first one being valid
C6_Witness ==
    /\ sign.pc = "thrown"
    /\ sign.error = "Unsupported format"
    /\ BatchSize >= 2
    /\ PrepareCheck(sign.messages[1]) = "ok"
    /\ UnsupportedPayloadInput(sign.messages[BatchSize])

\* C7 (as claimed): with a seqno argument S >= 0 getWalletSeqno is not
\* consulted and request i is prepared with seqno S + i.
C7_ArgumentSeqnoIsBase ==
    (sign.seqnoArg # Undefined /\ sign.pc \notin {"idle", "resolveSeqno"})
        => /\ ~sign.walletSeqnoConsulted
           /\ \A i \in 1..Len(sign.preparedOptions) :
                 sign.preparedOptions[i].seqno = Get(sign.seqnoArg) + (i - 1)

(***************************************************************************)
(* Properties of waitLedgerTonApp                                          *)
(***************************************************************************)
\* C8: while checkTonApp has not returned true, the race is never pending
\* after PAUSE * ATTEMPTS ms, and once resolved it resolved to false, at a
\* time no later than PAUSE * ATTEMPTS ms after the call.
C8_WaitResolvesFalseByDeadline ==
    (wait.pc # "idle" /\ wait.checkResult # Some(TRUE))
        => /\ clock > PAUSE * ATTEMPTS => wait.raceResult # Undefined
           /\ wait.raceResult # Undefined =>
                 /\ wait.raceResult = Some(FALSE)
                 /\ Get(wait.resolvedAt) <= PAUSE * ATTEMPTS

\* C8 witness: the deadline resolved the race while isAppOpen never answered
C8_Witness ==
    /\ wait.pc = "isAppOpen"
    /\ wait.probeDue = Undefined
    /\ wait.i = 0
    /\ wait.raceResult = Some(FALSE)
    /\ clock = PAUSE * ATTEMPTS

(***************************************************************************)
(* Properties of connectLedger                                             *)
(***************************************************************************)
\* C9: a connectLedger call never lists devices more than ATTEMPTS times, and
\* while list() has never answered with a device the call, once over, has
\* returned false; when all ATTEMPTS listings found nothing and create()
\* resolved each time, it failed with 'Failed to connect'.
C9_ConnectAttemptsBounded ==
    \A p \in ConnProcs :
        /\ conn[p].listCalls <= ATTEMPTS
        /\ conn[p].i <= ATTEMPTS
        /\ (conn[p].pc = "returned" /\ ~conn[p].deviceSeen) =>
              /\ conn[p].result = Some(FALSE)
              /\ conn[p].error # "none"
              /\ conn[p].i = ATTEMPTS <=> conn[p].error = "Failed to connect"
              /\ conn[p].error = "Failed to connect" => conn[p].listCalls = ATTEMPTS

\* C9 witness: ATTEMPTS listings found no device and the call failed
C9_Witness ==
    \E p \in ConnProcs :
        /\ conn[p].pc = "returned"
        /\ ~conn[p].deviceSeen
        /\ conn[p].listCalls = ATTEMPTS
        /\ conn[p].error = "Failed to connect"
        /\ conn[p].result = Some(FALSE)

(***************************************************************************)
(* Properties of getNextLedgerWallets                                      *)
(***************************************************************************)
ResultIndices == [k \in 1..Len(wallets.result) |-> wallets.result[k].index]

\* the scan of the claim's first example: from index 0, nothing imported,
\* balances 5, 0, 3
ScanOfFiveZeroThree ==
    /\ wallets.pc = "returned"
    /\ wallets.lastExistingIndex = -1
    /\ wallets.alreadyImportedAddresses = {}
    /\ wallets.balance[0] = 5 /\ wallets.balance[1] = 0 /\ wallets.balance[2] = 3

\* the scan of the second example: from index 0, nothing imported, balance 0
ScanOfZero ==
    /\ wallets.pc = "returned"
    /\ wallets.lastExistingIndex = -1
    /\ wallets.alreadyImportedAddresses = {}
    /\ wallets.balance[0] = 0

\* C10 (as claimed): balances [5, 0, 3] give [acct0, acct1]; [0] gives [acct0].
C10_ExamplesAsClaimed ==
    /\ ScanOfFiveZeroThree => ResultIndices = <<0, 1>>
    /\ ScanOfZero => ResultIndices = <<0>>

\* C10 (amended): balances [5, 0, 3] give [acct0] (the empty acct1 ends the
\* scan and is not recorded, acct0 being recorded already); [0] gives [acct0].
C10_Examples ==
    /\ ScanOfFiveZeroThree =>
          /\ ResultIndices = <<0>>
          /\ wallets.result[1] = [index |-> 0, address |-> AddressOf(0), balance |-> 5]
    /\ ScanOfZero =>
          /\ ResultIndices = <<0>>
          /\ wallets.result[1] = [index |-> 0, address |-> AddressOf(0), balance |-> 0]

\* C10 witness: the first example's scan has returned
C10_Witness == ScanOfFiveZeroThree /\ Len(wallets.result) = 1

\* the first index at or after the start whose wallet is not imported and
\* is empty: where the scan ends (the wallets beyond MaxIndex are empty)
FirstEmptyIndex ==
    Min({i \in (wallets.lastExistingIndex + 1)..(MaxIndex + 1) :
            /\ AddressOf(i) \notin wallets.alreadyImportedAddresses
            /\ (i \in Indices => wallets.balance[i] = 0)})

\* C11: a list returned normally is non-empty, ascending in index, free of
\* imported addresses, holds every non-imported funded wallet between the
\* start and the first non-imported empty wallet, and holds an empty wallet
\* only as its single element.
C11_DiscoveryResult ==
    wallets.pc = "returned" =>
        /\ Len(wallets.result) >= 1
        /\ \A k \in 1..(Len(wallets.result) - 1) :
              wallets.result[k].index < wallets.result[k + 1].index
        /\ \A k \in 1..Len(wallets.result) :
              /\ wallets.result[k].index > wallets.lastExistingIndex
              /\ wallets.result[k].address = AddressOf(wallets.result[k].index)
              /\ wallets.result[k].address \notin wallets.alreadyImportedAddresses
              /\ wallets.result[k].balance = BalanceOf(wallets, wallets.result[k].index)
              /\ wallets.result[k].balance = 0 => Len(wallets.result) = 1
        /\ \A i \in (wallets.lastExistingIndex + 1)..(FirstEmptyIndex - 1) :
              (AddressOf(i) \notin wallets.alreadyImportedAddresses)
                  => \E k \in 1..Len(wallets.result) : wallets.result[k].index = i
        /\ \A k \in 1..Len(wallets.result) : wallets.result[k].index <= FirstEmptyIndex

\* C11 witness: an imported wallet was skipped between two funded ones
C11_Witness ==
    /\ wallets.pc = "returned"
    /\ wallets.lastExistingIndex = -1
    /\ wallets.alreadyImportedAddresses = {AddressOf(1)}
    /\ ResultIndices = <<0, 2>>

(***************************************************************************)
(* Termination and budget of signLedgerTransactions                        *)
(***************************************************************************)
\* loop steps left at most: two per unused attempt, one less while a call
\* is awaited
StepsLeft ==
    2 * (sign.attempts - sign.attempt) - (IF sign.pc = "signing" THEN 1 ELSE 0)

\* C14: a run makes at most ATTEMPTS + N signing calls, every step of the
\* loop uses up the bounded budget (so the loop ends), and a run whose
\* budget is used up returns, without throwing, the list signed so far.
C14_SignTerminatesWithinBudget ==
    /\ [](sign.pc \in {"loop", "signing", "returned"} =>
            /\ sign.attempts = ATTEMPTS + BatchSize
            /\ sign.attempt <= sign.attempts
            /\ sign.signCalls <= ATTEMPTS + BatchSize
            /\ sign.transientFailures + Len(sign.signedMessages) <= ATTEMPTS + BatchSize
            /\ StepsLeft >= 0
            /\ sign.pc = "returned" =>
                  /\ sign.error = "none"
                  /\ sign.result = sign.signedMessages
                  /\ Len(sign.result) < BatchSize => sign.attempt = sign.attempts)
    /\ [][(sign.pc \in {"loop", "signing"} /\ sign'.pc \in {"loop", "signing"})
            => StepsLeft' < StepsLeft]_vars
    /\ [][(sign.pc = "loop" /\ sign.attempt = sign.attempts)
            => (sign'.pc = "returned" /\ sign'.result = sign.signedMessages)]_vars

\* C14 witness: the budget ran out with one of three requests signed
C14_Witness ==
    /\ sign.pc = "returned"
    /\ sign.attempt = sign.attempts
    /\ BatchSize = 3
    /\ Len(sign.result) = 1

\* C20: a returned batch of N >= 1 requests is complete exactly when at most
\* ATTEMPTS attempts failed with a transient error; with more failures
\* the list never becomes complete; every attempt, signed or failed, is one
\* unit of the budget.
C20_CompleteIffAtMostTenFailures ==
    /\ (sign.pc = "returned" /\ BatchSize >= 1) =>
          (Len(sign.result) = BatchSize <=> sign.transientFailures <= ATTEMPTS)
    /\ (sign.pc \in {"loop", "signing", "returned"} /\ sign.transientFailures > ATTEMPTS) =>
          Len(sign.signedMessages) < BatchSize
    /\ sign.pc \in {"loop", "signing", "returned"} =>
          sign.attempt = Len(sign.signedMessages) + sign.transientFailures

\* C20 witness: the eleventh failure left a batch of two with one result
C20_Witness ==
    /\ sign.pc = "returned"
    /\ sign.transientFailures = ATTEMPTS + 1
    /\ BatchSize = 2
    /\ Len(sign.result) = 1

(***************************************************************************)
(* What makes waitLedgerTonApp resolve to true                             *)
(***************************************************************************)
\* C15: the race resolves to true only while the deadline timer has not
\* fired and only by the iteration that saw isAppOpen answer true and then
\* had getAddress answer; a probe that throws, with 0x530c or another
\* message, leaves both results as they were and sends the loop to its pause.
C15_TrueOnlyAfterOpenAndProbe ==
    /\ [](wait.raceResult = Some(TRUE) =>
            /\ wait.checkResult = Some(TRUE)
            /\ wait.lastProbe = "derived"
            /\ wait.openIn = Some(wait.i)
            /\ Get(wait.resolvedAt) <= PAUSE * ATTEMPTS)
    /\ [](wait.checkResult = Some(TRUE) =>
            (wait.lastProbe = "derived" /\ wait.openIn = Some(wait.i)))
    /\ [][(wait.raceResult # Some(TRUE) /\ wait'.raceResult = Some(TRUE)) =>
            /\ wait.pc = "getAddress"
            /\ wait.deadlineDue # Undefined
            /\ wait.raceResult = Undefined
            /\ wait.openIn = Some(wait.i)
            /\ wait'.i = wait.i]_vars
    /\ [][(wait.lastProbe = "none" /\ wait'.lastProbe = "failed") =>
            /\ wait.pc \in {"idle", "isAppOpen", "getAddress"}
            /\ wait'.pc = "pause"
            /\ wait'.pauseDue = Some(clock + PAUSE)
            /\ wait'.i = wait.i
            /\ wait'.checkResult = wait.checkResult
            /\ wait'.raceResult = wait.raceResult]_vars
    /\ [][(wait.pc = "pause" /\ wait'.pc # "pause" /\ wait.i + 1 < ATTEMPTS
             /\ tonTransport # Undefined) =>
            (wait'.pc = "isAppOpen" /\ wait'.i = wait.i + 1)]_vars

\* C15 witness: after at least one iteration that ended in the pause, a
\* later iteration made the race resolve to true
C15_Witness ==
    /\ wait.raceResult = Some(TRUE)
    /\ wait.lastProbe = "derived"
    /\ wait.i >= 1
    /\ Get(wait.resolvedAt) > 0

(***************************************************************************)
(* Properties of submitLedgerTransfer                                      *)
(***************************************************************************)
\* C12: a run of submitLedgerTransfer makes at most one signing call and at
\* most one call of sendSignedTransferMessage, the latter only after the
\* signing call resolved; once the signing call has thrown, the run has
\* returned undefined without an exception and without a broadcast.
C12_SignFailureReturnsUndefined ==
    /\ submit.signCalls <= 1
    /\ submit.broadcastCalls <= 1
    /\ submit.broadcastCalls = 1 => (submit.signCalls = 1 /\ submit.signOutcome = "resolved")
    /\ submit.pc = "broadcast" => submit.signOutcome = "resolved"
    /\ submit.signOutcome = "threw" =>
          /\ submit.pc = "returned"
          /\ submit.result = Undefined
          /\ submit.error = "none"
          /\ submit.inflight = Undefined
          /\ submit.signCalls = 1
          /\ submit.broadcastCalls = 0

\* C12 witness: the device answered the signing call of a token transfer
\* with an error
C12_Witness ==
    /\ tonTransport # Undefined
    /\ submit.options.tokenAddress # ""
    /\ submit.signOutcome = "threw"
    /\ submit.pc = "returned"

(***************************************************************************)
(* The bounce flag of token and NFT transfers                              *)
(***************************************************************************)
\* C13: every prepared request of a batch message with payload type
\* 'tokens:transfer' or 'nft:transfer', and the request of a single transfer
\* with a token address, has bounce = true when it is sent to the device,
\* whatever form the recipient address has.
C13_TokenTransfersBounce ==
    /\ \A i \in 1..Len(sign.preparedOptions) :
          sign.messages[i].payload.type \in {"tokens:transfer", "nft:transfer"} =>
              sign.preparedOptions[i].bounce = TRUE
    /\ sign.inflight # Undefined =>
          (sign.messages[sign.index + 1].payload.type \in {"tokens:transfer", "nft:transfer"} =>
              Get(sign.inflight).bounce = TRUE)
    /\ (submit.inflight # Undefined /\ submit.options.tokenAddress # "") =>
          Get(submit.inflight).bounce = TRUE

\* C13 witness: the device is signing a token transfer of a batch whose
\* recipient address declares itself non-bounceable
C13_Witness ==
    /\ sign.pc = "signing"
    /\ sign.messages[sign.index + 1].payload.type = "tokens:transfer"
    /\ sign.messages[sign.index + 1].toAddress = "UQ-friendly"
    /\ ~parseFriendlyIsBounceable(sign.messages[sign.index + 1].toAddress)
    /\ Get(sign.inflight).bounce = TRUE

(***************************************************************************)
(* The session after a transport error at a signing call                   *)
(***************************************************************************)
SigningTransportError == sign.transportError \/ submit.transportError

\* C16 (as claimed): once a signing call of signLedgerTransactions or
\* submitLedgerTransfer has failed with a transport error, transport and
\* tonTransport are undefined, and no later signing call is answered with a
\* signature.
C16_TransportErrorDisconnects ==
    /\ [](SigningTransportError => (transport = Undefined /\ tonTransport = Undefined))
    /\ [][sign.transportError => Len(sign'.signedMessages) = Len(sign.signedMessages)]_vars

\* C16 (amended): a transport error at a signing call leaves transport and
\* tonTransport as they were and starts no connectLedger; afterwards
\* signLedgerTransactions sends its next signing call to the same signer
\* while its budget lasts, and submitLedgerTransfer has returned undefined.
C16_SessionKeptAfterTransportError ==
    /\ [](SigningTransportError =>
            /\ transport # Undefined
            /\ tonTransport = Some(TonTransport(Get(transport)))
            /\ conn = ConnAllIdle)
    /\ [][transport' = transport /\ tonTransport' = tonTransport /\ conn' = conn]_vars
    /\ [][(sign.transportError /\ sign.pc = "loop" /\ sign'.pc # "loop") =>
            IF LoopGuard(sign.index, Len(sign.preparedOptions), sign.attempt, sign.attempts)
            THEN sign'.pc = "signing" /\ sign'.inflight = Some(sign.preparedOptions[sign.index + 1])
            ELSE sign'.pc = "returned"]_vars
    /\ [](submit.transportError => (submit.pc = "returned" /\ submit.result = Undefined))

\* C16 witness: the only request of a batch was signed by a call made after
\* a transport error
C16_Witness ==
    /\ sign.transportError
    /\ BatchSize = 1
    /\ sign.pc = "returned"
    /\ Len(sign.result) = 1
    /\ tonTransport # Undefined

(***************************************************************************)
(* The pair transport / tonTransport under connectLedger                   *)
(***************************************************************************)
\* C19: whatever connectLedger calls have run, one after the other or
\* overlapping, tonTransport is defined exactly when transport is and is the
\* TonTransport built from the current transport; both change only in the
\* step in which a call succeeds, so a call that returns false (nothing
\* supported, attempts used up, list/create/open rejected) has left both
\* as they were.
C19_SignerBuiltFromTransport ==
    /\ []((transport = Undefined <=> tonTransport = Undefined)
          /\ (transport # Undefined => tonTransport = Some(TonTransport(Get(transport)))))
    /\ [][\A p \in ConnProcs :
            (conn[p].result = Undefined /\ conn'[p].result = Some(FALSE)) =>
                (transport' = transport /\ tonTransport' = tonTransport)]_vars
    /\ [][(transport' # transport \/ tonTransport' # tonTransport) =>
            \E p \in ConnProcs :
                /\ conn[p].result = Undefined
                /\ conn'[p].result = Some(TRUE)
                /\ transport' = Some(Transport(conn'[p].kind, p))]_vars
    /\ [](\A p \in ConnProcs :
            conn[p].result = Some(FALSE) =>
                conn[p].error \in {"HID and/or USB are not supported", "Failed to connect",
                                   "list failed", "create failed", "open failed"})

\* C19 witness: two calls overlap: call 2 has succeeded and set the pair
\* while call 1, started on a connected session, still awaits open()
C19_Witness ==
    /\ conn[1].pc = "open"
    /\ conn[2].result = Some(TRUE)
    /\ conn[2].i >= 1
    /\ transport = Some(Transport(conn[2].kind, 2))
    /\ tonTransport = Some(TonTransport(Transport(conn[2].kind, 2)))

(***************************************************************************)
(* Who writes transport and tonTransport                                   *)
(***************************************************************************)
\* C17: transport and tonTransport change only in the step in which a
\* connectLedger call succeeds; every step of checkTonApp / waitLedgerTonApp
\* (also after the race was decided), submitLedgerTransfer,
\* signLedgerTransactions, getNextLedgerWallets, signLedgerProof and
\* verifyAddress, resolving or throwing, leaves both as they were.
C17_OnlyConnectWritesSession ==
    /\ [][(transport' # transport \/ tonTransport' # tonTransport) =>
            \E p \in ConnProcs :
                /\ conn[p].pc \in {"list", "open"}
                /\ conn'[p].pc = "returned"
                /\ conn'[p].result = Some(TRUE)]_vars
    /\ [][(wait' # wait \/ clock' # clock \/ sign' # sign \/ submit' # submit
             \/ wallets' # wallets \/ query' # query) =>
            (transport' = transport /\ tonTransport' = tonTransport)]_vars
    /\ [][(wait.raceResult # Undefined /\ wait' # wait) =>
            (transport' = transport /\ tonTransport' = tonTransport)]_vars

\* C17 witness: waitLedgerTonApp resolved false by the deadline, and later a
\* probe of the polling loop, still running, threw; the session is as it was
C17_Witness ==
    /\ SessionConnected
    /\ wait.raceResult = Some(FALSE)
    /\ wait.deadlineDue = Undefined
    /\ wait.pc = "pause"
    /\ wait.lastProbe = "failed"
    /\ Get(wait.pauseDue) - PAUSE > PAUSE * ATTEMPTS

(***************************************************************************)
(* Device calls in flight                                                  *)
(***************************************************************************)
\* the device calls awaiting their answer
DeviceCallsInFlight ==
    (IF wait.pc \in {"isAppOpen", "getAddress"} THEN {"probe of checkTonApp"} ELSE {})
    \cup (IF sign.pc = "signing" THEN {"signTransaction of signLedgerTransactions"} ELSE {})
    \cup (IF submit.pc = "signing" THEN {"signTransaction of submitLedgerTransfer"} ELSE {})

\* C18: at most one device call (app-open probe, address derivation,
\* signing) awaits its answer at any time, also once waitLedgerTonApp has
\* resolved while its polling loop goes on.
C18_OneDeviceCallAtATime == Cardinality(DeviceCallsInFlight) <= 1

====
